---- MODULE Spec2Model ----
(***************************************************************************)
(* Python EZ Backup: the recursive copy engine (backup_helpers.py) and the *)
(* main-window aggregator that drives it (main.py).                        *)
(*                                                                         *)
(* A path is a sequence of names and a name is a sequence of characters,   *)
(* so os.path.join, Path.name and str.endswith are computed as the code    *)
(* computes them.  The filesystem is one namespace holding the source tree *)
(* and the backup directory.  Worker threads run BackupSelection.run one   *)
(* child entry at a time; every signal connected to a MainWindow slot is   *)
(* delivered through the main thread's event queue (queued connection),    *)
(* also while a modal message box is open.                                 *)
(***************************************************************************)
EXTENDS Integers, Sequences, FiniteSets, TLC

(***************************************************************************)
(* Bounds of the model.                                                    *)
(***************************************************************************)
\* calls of run_backup in one behaviour
MaxRuns == 2
\* filesystem operations that fail in one behaviour
MaxFail == 2
\* threads of the QThreadPool
MaxThreads == 2
\* times the user modifies a source file between runs
MaxTouch == 1

(***************************************************************************)
(* Names and paths of the source tree.                                     *)
(*   /d/a.xy   /d/s/c.x   /d/s/e.x   /d/m/   /r.xy   /t/r.xy               *)
(*   backup dir: /b      /x: a path that is neither a file nor a directory *)
(***************************************************************************)
nD == <<"d">>
nS == <<"s">>
nM == <<"m">>
nB == <<"b">>
nA == <<"a", ".", "x", "y">>
nC == <<"c", ".", "x">>
nE == <<"e", ".", "x">>
nR == <<"r", ".", "x", "y">>
nT == <<"t">>
nX == <<"x">>

pD == <<nD>>
pS == <<nD, nS>>
pM == <<nD, nM>>
pA == <<nD, nA>>
pC == <<nD, nS, nC>>
pE == <<nD, nS, nE>>
pR == <<nR>>
pB == <<nB>>
pT == <<nT>>
pQ == <<nT, nR>>
pX == <<nX>>

\* the text of the input_exclude_by line edit
NoText == <<>>
TextYXY == <<"y", ",", "x", "y">>
TextCX == <<"c", ",", "x", ",">>

VARIABLES
    files,          \* filesystem: path of every regular file -> [mtime, data, size]
    dirs,           \* filesystem: paths of the directories
    inputs,         \* what the user enters in the GUI: include rows, exclude rows, extension text
    threads,        \* QThreadPool.maxThreadCount()
    workers,        \* every BackupSelection object created so far
    tracked,        \* MainWindow.workers
    poolQueue,      \* runnables handed to QThreadPool.start that wait for a thread
    mainQueue,      \* signal emissions queued for the main thread
    progress,       \* MainWindow.progress
    total_memory,   \* MainWindow.total_memory
    maximum,        \* progress_bar.maximum()
    guiLocked,      \* set_gui_state(0) is in force
    boxes,          \* modal message boxes open, innermost last
    runs,           \* calls of run_backup so far
    fails,          \* failed filesystem operations so far
    touches,        \* source modifications so far
    emitted,        \* history: the signals each worker has emitted, in order
    handled,        \* history: one record per entry a worker has decided
    backupLogs,     \* history: the BackupLogEntry records save_backup_log has built
    runInfo         \* history: per run, what the main thread has seen

vars == <<files, dirs, inputs, threads, workers, tracked, poolQueue, mainQueue,
          progress, total_memory, maximum, guiLocked, boxes, runs, fails, touches,
          emitted, handled, backupLogs, runInfo>>

(***************************************************************************)
(* os.path, pathlib and str helpers.                                       *)
(***************************************************************************)
Join(p, name) == Append(p, name)
BaseName(p) == p[Len(p)]
IsPrefix(p, q) == Len(p) <= Len(q) /\ SubSeq(q, 1, Len(p)) = p
Prefixes(p) == {SubSeq(p, 1, i) : i \in 1..Len(p)}

endswith(name, suffix) ==
    /\ Len(suffix) <= Len(name)
    /\ SubSeq(name, Len(name) - Len(suffix) + 1, Len(name)) = suffix

isfile(p) == p \in DOMAIN files
isdir(p) == p \in dirs
getmtime(p) == files[p].mtime
getsize(p) == files[p].size

listdir(p) ==
    {BaseName(q) : q \in {e \in dirs \cup DOMAIN files : Len(e) = Len(p) + 1 /\ IsPrefix(p, e)}}

\* os.makedirs(p, exist_ok=True)
makedirs(ds, p) == ds \cup Prefixes(p)

\* shutil.copy2(src, dst): content, size and modification time of src
copy2(fs, src, dst) ==
    [p \in DOMAIN fs \cup {dst} |-> IF p = dst THEN fs[src] ELSE fs[p]]

\* str.split(',')
RECURSIVE split(_)
split(text) ==
    IF \A i \in 1..Len(text) : text[i] # ","
    THEN <<text>>
    ELSE LET i == CHOOSE k \in 1..Len(text) :
                      text[k] = "," /\ \A j \in 1..(k - 1) : text[j] # ","
         IN <<SubSeq(text, 1, i - 1)>> \o split(SubSeq(text, i + 1, Len(text)))

\* the characters of the model's texts that are in [a-zA-Z\s]
Letters == {"a", "c", "e", "r", "x", "y"}

\* QRegExp('^([a-zA-Z\s]+,[a-zA-Z\s]+,)*$') matches the whole text
RECURSIVE reg_expression(_)
reg_expression(text) ==
    IF text = <<>> THEN TRUE
    ELSE \E i \in 2..Len(text) : \E j \in (i + 2)..Len(text) :
            /\ text[i] = "," /\ text[j] = ","
            /\ \A k \in 1..(i - 1) : text[k] \in Letters
            /\ \A k \in (i + 1)..(j - 1) : text[k] \in Letters
            /\ reg_expression(SubSeq(text, j + 1, Len(text)))

excluded_extensions(text) == IF text # <<>> THEN split(text) ELSE <<>>

InSeq(x, s) == \E i \in 1..Len(s) : s[i] = x

\* a comparison that also overwrites on equal times
check_existing_file_ge(src, dest) == getmtime(src) >= getmtime(dest)

check_existing_file(src, dest) == getmtime(src) > getmtime(dest)

RECURSIVE count_total_files(_)
count_total_files(input_select) ==
    IF input_select = <<>> THEN 0
    ELSE LET item == Head(input_select) IN
         (IF isfile(item) THEN 1
          ELSE IF isdir(item)
               THEN Cardinality({p \in DOMAIN files : Len(p) > Len(item) /\ IsPrefix(item, p)})
               ELSE 0)
         + count_total_files(Tail(input_select))


(***************************************************************************)
(* Signals (WorkerSignals) and BackupSelection objects.                    *)
(***************************************************************************)
Sig(k, v) == [k |-> k, v |-> v]
Count(sigs, k) == Cardinality({i \in 1..Len(sigs) : sigs[i].k = k})

\* a connection list without new_thread
Queued_without_new_thread == {"error", "progress", "memory_count"}

\* The signals whose slots change MainWindow state.  status is connected to
\* update_status, which only sets a label; finished is connected to nothing.
Queued == {"error", "progress", "memory_count", "new_thread"}

ToMain(w, sigs) ==
    LET kept == SelectSeq(sigs, LAMBDA s : s.k \in Queued)
    IN [i \in 1..Len(kept) |-> [k |-> kept[i].k, v |-> kept[i].v, w |-> w]]

\* a constructor that drops the path exclusion list
no_ignore_files(source, destination, ignore_files, ignore_extensions, root_input, run) ==
    [src |-> source, dst |-> destination, root |-> root_input,
     ignore_files |-> <<>>, ignore_extensions |-> ignore_extensions,
     is_killed |-> FALSE, pc |-> "created", names |-> {}, run |-> run]

\* BackupSelection.__init__
BackupSelection(source, destination, ignore_files, ignore_extensions, root_input, run) ==
    [src |-> source, dst |-> destination, root |-> root_input,
     ignore_files |-> ignore_files, ignore_extensions |-> ignore_extensions,
     is_killed |-> FALSE, pc |-> "created", names |-> {}, run |-> run]

Ids == 1..Len(workers)
Running == {i \in Ids : workers[i].pc = "loop"}

\* the user's possible GUI inputs
\* session: how many times the user runs a backup before leaving
\* old: the source files of which the backup directory holds an older copy,
\*      left by an earlier session
Scenario(include, exclude, text, session, old) ==
    [include |-> include, exclude |-> exclude, text |-> text, session |-> session,
     old |-> old]
Scenarios ==
    {Scenario(<<pD>>, <<>>, NoText, 1, {}),
     Scenario(<<pD>>, <<pS>>, NoText, 1, {}),
     Scenario(<<pD>>, <<pS, pM>>, NoText, 1, {}),
     Scenario(<<pD>>, <<pM>>, NoText, 1, {}),
     Scenario(<<pD>>, <<pA>>, NoText, 1, {}),
     Scenario(<<pD>>, <<>>, TextYXY, 1, {}),
     Scenario(<<pR>>, <<>>, NoText, MaxRuns, {}),
     Scenario(<<pR>>, <<>>, TextYXY, MaxRuns, {}),
     Scenario(<<pD, pR>>, <<>>, NoText, 1, {}),
     Scenario(<<pD, pR>>, <<pS>>, TextYXY, 1, {}),
     Scenario(<<pM>>, <<>>, NoText, 1, {}),
     Scenario(<<pR>>, <<>>, NoText, MaxRuns, {pR}),
     Scenario(<<pD, pR>>, <<pS, pM>>, NoText, 1, {pA, pR}),
     Scenario(<<pR, pQ>>, <<>>, NoText, MaxRuns, {}),
     Scenario(<<pX>>, <<>>, NoText, 1, {}),
     Scenario(<<pR>>, <<>>, TextCX, 1, {}),
     Scenario(<<pR>>, <<pR>>, NoText, 1, {})}

SourceFiles == {pA, pC, pE, pR, pQ}
\* the files the user may edit between two runs
TouchFiles == {pA, pR}

\* the path below the backup directory that a file of a root selection entry is copied to
BackupPath(f) == <<nB>> \o f

Init ==
    /\ inputs \in Scenarios
    /\ files = [p \in SourceFiles \cup {BackupPath(f) : f \in inputs.old} |->
                  IF p \in SourceFiles
                  THEN [mtime |-> 1, data |-> <<p, 1>>,
                        size |-> CASE p = pA -> 1 [] p = pC -> 2 [] p = pE -> 4
                                  [] p = pR -> 8 [] OTHER -> 16]
                  ELSE [mtime |-> 0, data |-> <<Tail(p), 0>>, size |-> 1]]
    /\ dirs = {pD, pS, pM, pT, pB} \cup UNION {Prefixes(BackupPath(f)) \ {BackupPath(f)} : f \in inputs.old}
    /\ threads \in {1, MaxThreads}
    /\ workers = <<>>
    /\ tracked = <<>>
    /\ poolQueue = <<>>
    /\ mainQueue = <<>>
    /\ progress = 0
    /\ total_memory = 0
    /\ maximum = 100
    /\ guiLocked = FALSE
    /\ boxes = <<>>
    /\ runs = 0
    /\ fails = 0
    /\ touches = 0
    /\ emitted = <<>>
    /\ handled = {}
    /\ backupLogs = <<>>
    /\ runInfo = <<>>

(***************************************************************************)
(* MainWindow.run_backup: the user has chosen the backup directory and the *)
(* inputs, and clicks Run.                                                 *)
(***************************************************************************)
\* the include rows of the next run: all rows of the scenario in the first run;
\* before a later run the user may have removed the rows after the first
Rows == IF runs = 0 THEN {Len(inputs.include)} ELSE {1, Len(inputs.include)}

run_backup ==
    /\ ~guiLocked
    /\ boxes = <<>>
    /\ runs < inputs.session
    /\ \E rows \in Rows :
       LET files_to_include == SubSeq(inputs.include, 1, rows)
           files_to_exclude == inputs.exclude
           exts == excluded_extensions(inputs.text)
           new == [i \in 1..Len(files_to_include) |->
                     BackupSelection(files_to_include[i], pB, files_to_exclude, exts,
                                     TRUE, runs + 1)]
           ids == [i \in 1..Len(new) |-> Len(workers) + i]
       IN /\ maximum' = count_total_files(files_to_include)
          /\ workers' = workers \o [i \in 1..Len(new) |-> [new[i] EXCEPT !.pc = "queued"]]
          /\ tracked' = tracked \o ids
          /\ poolQueue' = poolQueue \o ids
          /\ emitted' = emitted \o [i \in 1..Len(new) |-> <<>>]
          /\ runInfo' = Append(runInfo, [total |-> count_total_files(files_to_include),
                                         start |-> progress, memory |-> total_memory,
                                         cancelled |-> FALSE, finalized |-> 0,
                                         messages |-> 0, include |-> files_to_include,
                                         queued |-> Len(mainQueue)])
    /\ guiLocked' = TRUE
    /\ runs' = runs + 1
    /\ UNCHANGED <<files, dirs, inputs, threads, mainQueue, progress, total_memory,
                   boxes, fails, touches, handled, backupLogs>>


(***************************************************************************)
(* BackupSelection.run, one step per child entry.                          *)
(*   pc: created (new_thread not yet delivered), queued (in the pool),     *)
(*       loop (at the head of the for loop), done                          *)
(***************************************************************************)
\* status texts: 0 the name of a file or directory, 1 'worker killed'
Status == Sig("status", 0)
WorkerKilled == Sig("status", 1)
Error == Sig("error", 0)
Finished == Sig("finished", 0)

\* run() without its finally clause
no_finally(sigs) == sigs

\* finally: self.worker_signals.finished.emit()
finally(sigs) == Append(sigs, Finished)

\* except WorkerKilledException: self.emit_status('worker killed')
\* a handler that reports the cancellation as an error
killed_as_error == <<Error>>

killed_signals == <<WorkerKilled>>

\* a handler that reports nothing
exception_swallowed == <<>>

\* except Exception as error: self.emit_error(...)
exception_signals == <<Error>>

\* a handler that also accounts for one file
root_mapping_signals_progress == <<Error, Sig("progress", 1)>>

\* except OSError around the makedirs of the nested root directory: emit_error(...); return
root_mapping_signals == <<Error>>

\* if src_name in self.ignore_files: emit_progress(1); emit_status(...); continue
excluded_path_signals == <<Sig("progress", 1), Status>>

\* a comparison of the whole name with the suffix
extension_equals(name, ignore_extensions) ==
    \E i \in 1..Len(ignore_extensions) : name = ignore_extensions[i]

\* for extension in self.ignore_extensions: if name.endswith(extension): ignore_this = True
extension_ignored(name, ignore_extensions) ==
    \E i \in 1..Len(ignore_extensions) : endswith(name, ignore_extensions[i])

\* if ignore_this: emit_progress(1); emit_status(...); continue
ignored_child_signals == <<Sig("progress", 1), Status>>

\* a copy decision that emits the progress unit after the try statement in both branches
child_copy_signals_always(src_name, dst_name, copied) ==
    <<Status>>
    \o (IF copied THEN <<Sig("memory_count", getsize(src_name))>> ELSE <<Error>>)
    \o <<Sig("progress", 1)>>

\* the copy decision for a file child of a directory; copied tells whether copy2 succeeded
child_copy_signals(src_name, dst_name, copied) ==
    IF isfile(dst_name)
    THEN IF check_existing_file(src_name, dst_name)
         THEN <<Status>>
              \o (IF copied THEN <<Sig("memory_count", getsize(src_name))>> ELSE <<Error>>)
              \o <<Sig("progress", 1)>>
         ELSE <<Sig("progress", 1)>>
    ELSE <<Status>>
         \o (IF copied THEN <<Sig("progress", 1), Sig("memory_count", getsize(src_name))>>
             ELSE <<Error>>)

\* an extension check of a root file that returns without a progress unit
root_ignored_silently == <<Status>>

\* the extension check of a root file: the first matching suffix returns
root_ignored_signals == <<Status, Sig("progress", 1)>>

\* a copy decision that emits the progress unit in the else clause in both branches
root_copy_signals_else(src, dst_file, copied) ==
    IF isfile(dst_file) /\ ~check_existing_file(src, dst_file)
    THEN <<Sig("progress", 1)>>
    ELSE <<Status>>
         \o (IF copied THEN <<Sig("progress", 1), Sig("memory_count", getsize(src))>>
             ELSE <<Error>>)

\* the copy decision for a root file; dst_file is os.path.join(self.dst, self.src.name)
root_copy_signals(src, dst_file, copied) ==
    IF isfile(dst_file)
    THEN IF check_existing_file(src, dst_file)
         THEN <<Status>>
              \o (IF copied THEN <<Sig("memory_count", getsize(src))>> ELSE <<Error>>)
              \o <<Sig("progress", 1)>>
         ELSE <<Sig("progress", 1)>>
    ELSE <<Status>>
         \o (IF copied THEN <<Sig("progress", 1), Sig("memory_count", getsize(src))>>
             ELSE <<Error>>)

\* a loop that a failed copy leaves as well
raises_on_copy(o) == o # "ok"

\* whether outcome o of a child's body leaves the for loop through except Exception:
\* a failed os.path.getsize or getmtime does, a failed copy2 is caught in place
raises(o) == o = "unexpected"

\* whether the copy decision calls shutil.copy2
calls_copy2(src, dst_file) ==
    IF isfile(dst_file) THEN check_existing_file(src, dst_file) ELSE TRUE

Emit(w, sigs) ==
    /\ emitted' = [emitted EXCEPT ![w] = @ \o sigs]
    /\ mainQueue' = mainQueue \o ToMain(w, sigs)

\* the record of one decided entry (kind makedirs, root_makedirs, listdir: of a
\* directory worker that failed before its loop; missing: of a worker whose source is
\* neither a file nor a directory; killed: of a worker that found its flag set);
\* rootfile: the entry is the worker's own source;
\* cancelled: kill_all had already run in this worker's run when it was decided;
\* killed: the worker's own flag was set then
Entry(w, src, dst, kind, copy, sigs) ==
    [w |-> w, run |-> workers[w].run, rootfile |-> (src = workers[w].src), src |-> src,
     dst |-> dst,
     kind |-> kind, copy |-> copy, sigs |-> sigs,
     srcM |-> IF isfile(src) THEN getmtime(src) ELSE 0,
     dstM |-> IF isfile(dst) THEN getmtime(dst) ELSE 0,
     size |-> IF isfile(src) THEN getsize(src) ELSE 0,
     cancelled |-> runInfo[workers[w].run].cancelled,
     killed |-> workers[w].is_killed]

\* run() on a directory, up to the listing of its children
DirStart(w) ==
    LET me == workers[w]
        nested == Join(me.dst, BaseName(me.src))
    IN \E o \in {"ok", "makedirs", "root_makedirs", "listdir"} :
        /\ o # "ok" => fails < MaxFail
        /\ o = "makedirs" => ~isdir(me.dst)
        /\ o = "root_makedirs" => me.root
        /\ fails' = IF o = "ok" THEN fails ELSE fails + 1
        /\ LET dst1 == IF o = "makedirs" THEN dirs ELSE makedirs(dirs, me.dst)
               dst2 == IF me.root /\ o \in {"ok", "listdir"} THEN makedirs(dst1, nested) ELSE dst1
               names == listdir(me.src)
               sigs == CASE o = "root_makedirs" -> finally(root_mapping_signals)
                         [] o \in {"makedirs", "listdir"} -> finally(exception_signals)
                         [] OTHER -> IF names = {} THEN finally(<<>>) ELSE <<>>
           IN /\ dirs' = dst2
              /\ handled' = IF o = "ok" THEN handled
                            ELSE handled \cup {Entry(w, me.src, me.dst, o, "none", sigs)}
              /\ workers' = [workers EXCEPT ![w] =
                    [@ EXCEPT !.dst = IF me.root /\ o \in {"ok", "listdir"} THEN nested ELSE @,
                              !.names = IF o = "ok" THEN names ELSE {},
                              !.pc = IF o = "ok" /\ names # {} THEN "loop" ELSE "done"]]
              /\ Emit(w, sigs)
        /\ UNCHANGED files

\* run() on a root file
RootFile(w) ==
    LET me == workers[w]
        dst_file == Join(me.dst, BaseName(me.src))
    IN \E o \in {"ok", "copy", "unexpected"} :
        /\ o # "ok" => fails < MaxFail
        /\ o = "copy" => ~extension_ignored(BaseName(me.src), me.ignore_extensions)
                         /\ calls_copy2(me.src, dst_file)
        /\ o = "unexpected" => ~extension_ignored(BaseName(me.src), me.ignore_extensions)
        /\ fails' = IF o = "ok" THEN fails ELSE fails + 1
        /\ LET ignored == extension_ignored(BaseName(me.src), me.ignore_extensions)
               copies == ~ignored /\ o # "unexpected" /\ calls_copy2(me.src, dst_file)
               sigs == IF ignored THEN root_ignored_signals
                       ELSE IF o = "unexpected" THEN exception_signals
                       ELSE root_copy_signals(me.src, dst_file, o = "ok")
               kind == IF ignored THEN "extension"
                       ELSE IF o = "unexpected" THEN "unexpected"
                       ELSE IF isfile(dst_file) THEN "present" ELSE "absent"
               copy == IF ~copies THEN "none" ELSE IF o = "ok" THEN "ok" ELSE "failed"
           IN /\ files' = IF copy = "ok" THEN copy2(files, me.src, dst_file) ELSE files
              /\ handled' = handled \cup {Entry(w, me.src, dst_file, kind, copy, sigs)}
              /\ workers' = [workers EXCEPT ![w].pc = "done"]
              /\ Emit(w, finally(sigs))
        /\ UNCHANGED dirs

\* the pool gives the oldest waiting runnable a free thread, and run() begins
WorkerStart(w) ==
    /\ poolQueue # <<>>
    /\ Head(poolQueue) = w
    /\ Cardinality(Running) < threads
    /\ poolQueue' = Tail(poolQueue)
    /\ IF isdir(workers[w].src) THEN DirStart(w)
       ELSE IF isfile(workers[w].src) THEN RootFile(w)
       ELSE /\ workers' = [workers EXCEPT ![w].pc = "done"]
            /\ Emit(w, finally(<<>>))
            /\ handled' = handled \cup {Entry(w, workers[w].src, workers[w].dst, "missing",
                                               "none", <<>>)}
            /\ UNCHANGED <<files, dirs, fails>>
    /\ UNCHANGED <<inputs, threads, tracked, progress, total_memory, maximum, guiLocked,
                   boxes, runs, touches, backupLogs, runInfo>>

\* a loop that never looks at the flag
never_killed(me) == FALSE

\* if self.is_killed: raise WorkerKilledException
raise_killed(me) == me.is_killed

\* One pass of the for loop: the is_killed check, then the body for one child.
\* The body reads no state the main thread writes and kill_all reads nothing
\* the body writes, so a kill between the check and the body is the kill
\* right after this step.  os.listdir gives the names in any order.
WorkerStep(w) ==
    LET me == workers[w] IN
    /\ me.pc = "loop"
    /\ IF raise_killed(me)
       THEN /\ workers' = [workers EXCEPT ![w].pc = "done"]
            /\ Emit(w, finally(killed_signals))
            /\ handled' = handled \cup {Entry(w, me.src, me.dst, "killed", "none",
                                               killed_signals)}
            /\ UNCHANGED <<files, fails>>
       ELSE \E name \in me.names : \E o \in {"ok", "copy", "unexpected"} :
            LET src_name == Join(me.src, name)
                dst_name == Join(me.dst, name)
                excluded == InSeq(src_name, me.ignore_files)
                spawn == ~excluded /\ isdir(src_name)
                plain == ~excluded /\ ~isdir(src_name) /\ isfile(src_name)
                         /\ ~extension_ignored(name, me.ignore_extensions)
                copies == plain /\ o # "unexpected" /\ calls_copy2(src_name, dst_name)
                child == Len(workers) + 1
                sigs == CASE excluded -> excluded_path_signals
                          [] spawn -> <<Sig("new_thread", child)>>
                          [] plain /\ o = "unexpected" -> exception_signals
                          [] plain -> child_copy_signals(src_name, dst_name, o = "ok")
                          [] isfile(src_name) -> ignored_child_signals
                          [] OTHER -> <<>>
                kind == CASE excluded -> "excluded"
                          [] spawn -> "dir"
                          [] plain /\ o = "unexpected" -> "unexpected"
                          [] plain -> IF isfile(dst_name) THEN "present" ELSE "absent"
                          [] isfile(src_name) -> "extension"
                          [] OTHER -> "other"
                copy == IF ~copies THEN "none" ELSE IF o = "ok" THEN "ok" ELSE "failed"
                stop == IF raises(o) THEN TRUE ELSE me.names = {name}
                mine == [me EXCEPT !.names = @ \ {name},
                                   !.pc = IF stop THEN "done" ELSE "loop"]
                all == IF stop THEN finally(sigs) ELSE sigs
            IN /\ o # "ok" => fails < MaxFail
               /\ o = "copy" => copies
               /\ o = "unexpected" => plain
               /\ fails' = IF o = "ok" THEN fails ELSE fails + 1
               /\ files' = IF copy = "ok" THEN copy2(files, src_name, dst_name) ELSE files
               /\ handled' = handled \cup {Entry(w, src_name, dst_name, kind, copy, sigs)}
               /\ workers' = IF spawn
                             THEN Append([workers EXCEPT ![w] = mine],
                                         BackupSelection(src_name, dst_name, me.ignore_files,
                                                         me.ignore_extensions, FALSE, me.run))
                             ELSE [workers EXCEPT ![w] = mine]
               /\ emitted' = IF spawn THEN Append([emitted EXCEPT ![w] = @ \o all], <<>>)
                             ELSE [emitted EXCEPT ![w] = @ \o all]
               /\ mainQueue' = mainQueue \o ToMain(w, sigs)
    /\ UNCHANGED <<dirs, inputs, threads, tracked, poolQueue, progress, total_memory,
                   maximum, guiLocked, boxes, runs, touches, backupLogs, runInfo>>

(***************************************************************************)
(* MainWindow slots, run by the main thread for the oldest queued signal.  *)
(***************************************************************************)
Delivered(k) ==
    /\ mainQueue # <<>>
    /\ Head(mainQueue).k = k
    /\ mainQueue' = Tail(mainQueue)

\* for worker in self.workers: worker.kill()
kill_all(ws) ==
    [i \in 1..Len(ws) |-> IF InSeq(i, tracked) THEN [ws[i] EXCEPT !.is_killed = TRUE] ELSE ws[i]]

\* the BackupLogEntry save_backup_log builds
save_backup_log == [file_count |-> maximum, total_memory |-> total_memory, run |-> runs]

\* a completion test that also holds above the maximum
complete_at_least(p) == p >= maximum

\* self.progress == self.progress_bar.maximum()
complete(p) == p = maximum

\* update_progress, up to the modal 'Backup Complete!' box
update_progress ==
    /\ Delivered("progress")
    /\ progress' = progress + Head(mainQueue).v
    /\ IF complete(progress')
       THEN /\ backupLogs' = Append(backupLogs, save_backup_log)
            /\ boxes' = Append(boxes, "complete")
            /\ runInfo' = [runInfo EXCEPT ![runs].finalized = @ + 1]
       ELSE UNCHANGED <<backupLogs, boxes, runInfo>>
    /\ UNCHANGED <<files, dirs, inputs, threads, workers, tracked, poolQueue, total_memory,
                   maximum, guiLocked, runs, fails, touches, emitted, handled>>

\* a slot call whose addition is lost
update_memory_count_lost ==
    /\ Delivered("memory_count")
    /\ UNCHANGED <<files, dirs, inputs, threads, workers, tracked, poolQueue, progress,
                   total_memory, maximum, guiLocked, boxes, runs, fails, touches, emitted,
                   handled, backupLogs, runInfo>>

update_memory_count ==
    /\ Delivered("memory_count")
    /\ total_memory' = total_memory + Head(mainQueue).v
    /\ UNCHANGED <<files, dirs, inputs, threads, workers, tracked, poolQueue, progress,
                   maximum, guiLocked, boxes, runs, fails, touches, emitted, handled,
                   backupLogs, runInfo>>

\* an error handler that requests no cancellation
cancel_nothing(ws) == ws

\* cancel_backup: kill_all between set_gui_state(0) and set_gui_state(1).  Only
\* process_error reaches it: the Cancel button keeps its first connection, to
\* exit_application (main.py:184), which runs first and ends the process.
cancel_backup(ws) == kill_all(ws)

\* an error handler that also removes what the run has copied so far
process_error_rollback ==
    /\ Delivered("error")
    /\ workers' = cancel_backup(workers)
    /\ guiLocked' = FALSE
    /\ boxes' = Append(boxes, "critical")
    /\ runInfo' = [runInfo EXCEPT ![runs].cancelled = TRUE,
                                  ![workers[Head(mainQueue).w].run].messages = @ + 1]
    /\ files' = [p \in DOMAIN files \ {h.dst : h \in {g \in handled : g.copy = "ok"}} |->
                   files[p]]
    /\ UNCHANGED <<dirs, inputs, threads, tracked, poolQueue, progress, total_memory,
                   maximum, runs, fails, touches, emitted, handled, backupLogs>>

\* process_error: log_error, cancel_backup, then the modal critical box
process_error ==
    /\ Delivered("error")
    /\ workers' = cancel_backup(workers)
    /\ guiLocked' = FALSE
    /\ boxes' = Append(boxes, "critical")
    /\ runInfo' = [runInfo EXCEPT ![runs].cancelled = TRUE,
                                  ![workers[Head(mainQueue).w].run].messages = @ + 1]
    /\ UNCHANGED <<files, dirs, inputs, threads, tracked, poolQueue, progress, total_memory,
                   maximum, runs, fails, touches, emitted, handled, backupLogs>>

\* enqueue, reached through the new_thread signal of a running worker
enqueue ==
    /\ Delivered("new_thread")
    /\ LET worker == Head(mainQueue).v
       IN /\ tracked' = Append(tracked, worker)
          /\ poolQueue' = Append(poolQueue, worker)
          /\ workers' = [workers EXCEPT ![worker].pc = "queued"]
    /\ UNCHANGED <<files, dirs, inputs, threads, progress, total_memory, maximum, guiLocked,
                   boxes, runs, fails, touches, emitted, handled, backupLogs, runInfo>>

\* the user closes the innermost message box; after 'Backup Complete!'
\* update_progress goes on with cleanup() and set_gui_state(1).  cleanup clears
\* the GUI inputs and the backup directory, which the user enters again for
\* the next run; it leaves progress, total_memory and workers as they are.
close_box ==
    /\ boxes # <<>>
    /\ boxes' = SubSeq(boxes, 1, Len(boxes) - 1)
    /\ guiLocked' = IF boxes[Len(boxes)] = "complete" THEN FALSE ELSE guiLocked
    /\ UNCHANGED <<files, dirs, inputs, threads, workers, tracked, poolQueue, mainQueue,
                   progress, total_memory, maximum, runs, fails, touches, emitted, handled,
                   backupLogs, runInfo>>

Quiescent ==
    /\ \A w \in Ids : workers[w].pc = "done"
    /\ mainQueue = <<>>
    /\ boxes = <<>>

\* between two runs the user edits a source file: new content, later modification time
Touch(p) ==
    /\ runs >= 1
    /\ runs < inputs.session
    /\ touches < MaxTouch
    /\ Quiescent
    /\ ~guiLocked
    /\ files' = [files EXCEPT ![p] = [mtime |-> @.mtime + 1, data |-> <<p, @.data[2] + 1>>,
                                      size |-> @.size]]
    /\ touches' = touches + 1
    /\ UNCHANGED <<dirs, inputs, threads, workers, tracked, poolQueue, mainQueue, progress,
                   total_memory, maximum, guiLocked, boxes, runs, fails, emitted, handled,
                   backupLogs, runInfo>>

Next ==
    \/ run_backup
    \/ \E w \in Ids : WorkerStart(w)
    \/ \E w \in Ids : WorkerStep(w)
    \/ update_progress
    \/ update_memory_count
    \/ process_error
    \/ enqueue
    \/ close_box
    \/ \E p \in TouchFiles : Touch(p)

Spec == Init /\ [][Next]_vars

(***************************************************************************)
(* Scheduling.  QThreadPool gives a waiting runnable a thread as soon as   *)
(* one is free and a started run() goes on until it returns; the main      *)
(* thread's event loop, and the nested loop of an open message box,        *)
(* deliver every queued signal.  The user's own steps (Run, closing a      *)
(* box, editing a file) are under no obligation.  One run of one           *)
(* directory is followed to its end.                                       *)
(***************************************************************************)
LiveScenarios ==
    {s \in Scenarios : s.session = 1 /\ s.text = NoText /\ s.old = {} /\ Len(s.include) = 1}

LiveInit == Init /\ inputs \in LiveScenarios

LiveNext ==
    \/ run_backup
    \/ \E w \in Ids : WorkerStart(w)
    \/ \E w \in Ids : WorkerStep(w)
    \/ update_progress
    \/ update_memory_count
    \/ process_error
    \/ enqueue
    \/ close_box

Fairness ==
    /\ WF_vars(\E w \in Ids : WorkerStart(w))
    /\ WF_vars(\E w \in Ids : WorkerStep(w))
    /\ WF_vars(update_progress)
    /\ WF_vars(update_memory_count)
    /\ WF_vars(process_error)
    /\ WF_vars(enqueue)

FairSpec == LiveInit /\ [][LiveNext]_vars /\ Fairness


(***************************************************************************)
(* Properties.                                                             *)
(***************************************************************************)
Last(s) == s[Len(s)]
Ended(w) == workers[w].pc = "done"
FilesUnder(item) == {p \in SourceFiles : Len(p) > Len(item) /\ IsPrefix(item, p)}

\* the destination path of source file f of root selection entry item
Mapped(item, f) ==
    IF f = item THEN Join(pB, BaseName(item))
    ELSE <<nB, BaseName(item)>> \o SubSeq(f, Len(item) + 1, Len(f))

\* the source files of the selection
Selected == UNION {IF inputs.include[i] \in SourceFiles THEN {inputs.include[i]}
                   ELSE FilesUnder(inputs.include[i]) : i \in 1..Len(inputs.include)}

\* the run that is over: every worker has ended and every signal is delivered
RunOver == runs >= 1 /\ Quiescent

\* C1: every worker whose run() has ended has emitted finished exactly once, as
\* its last signal, and no worker emits finished before run() ends.
C1_FinishedOnceAndLast ==
    \A w \in Ids :
        /\ Count(emitted[w], "finished") = (IF Ended(w) THEN 1 ELSE 0)
        /\ Ended(w) => Last(emitted[w]).k = "finished"

\* a worker stopped by its kill flag with entries left, in a run where a copy failed
C1_Witness ==
    \E w \in Ids :
        /\ Ended(w) /\ workers[w].is_killed /\ workers[w].names # {}
        /\ emitted[w][Len(emitted[w]) - 1].k = "status"
        /\ \E h \in handled : h.copy = "failed"

\* C2: when the first run of a session is over and was free of errors and
\* cancellation, processed has equalled total_expected (update_progress has seen
\* the equality, or it holds now).
C2_ProcessedReachesTotal ==
    (runs = 1 /\ RunOver /\ fails = 0) =>
        (runInfo[1].finalized > 0 \/ progress = maximum)

\* the include rows have different base names
DistinctNames ==
    \A i \in 1..Len(inputs.include) : \A j \in 1..Len(inputs.include) :
        i # j => BaseName(inputs.include[i]) # BaseName(inputs.include[j])

\* C3: with empty exclusion lists, when an error-free run is over (and the source
\* has not been edited since), processed equals the number N of selected files and
\* every selected file has a destination file at its mapped path with the content
\* of the source.  (Include rows of different base names: C21 is about the others.)
C3_CompleteRunCopiesAll ==
    (RunOver /\ fails = 0 /\ touches = 0 /\ DistinctNames
     /\ inputs.exclude = <<>> /\ inputs.text = NoText) =>
        /\ progress = Cardinality(Selected)
        /\ \A i \in 1..Len(inputs.include) :
             \A f \in (IF inputs.include[i] \in SourceFiles THEN {inputs.include[i]}
                       ELSE FilesUnder(inputs.include[i])) :
                 /\ isfile(Mapped(inputs.include[i], f))
                 /\ files[Mapped(inputs.include[i], f)].data = files[f].data

\* C4: once kill_all has run in a run, every worker of that run that starts or
\* makes a per-child check has its flag set, so no worker handed to the pool
\* after the request decides an entry or copies a file.
C4_FlagSetAfterCancel ==
    \A h \in handled : h.cancelled => h.killed

\* C5: an existing destination file is overwritten (copy2 is called on it) iff the
\* source modification time is strictly greater, for a file child and for a root
\* file; a successful overwrite leaves the destination at least as new as the source.
C5_OverwriteLaw ==
    \A h \in handled :
        h.kind = "present" =>
            /\ (h.copy # "none") <=> (h.srcM > h.dstM)
            /\ h.copy = "ok" => files[h.dst].mtime >= h.srcM

\* a file child overwritten because its source was strictly newer
C5_Witness ==
    \E h \in handled :
        /\ h.kind = "present" /\ ~h.rootfile /\ h.srcM > h.dstM /\ h.copy = "ok"
        /\ files[h.dst] = files[h.src]

\* C6: after two error-free runs on an unchanged source tree, the second run has
\* copied nothing and completion has been triggered in both runs.
C6_SecondRunIdempotent ==
    (runs = 2 /\ Quiescent /\ fails = 0 /\ touches = 0) =>
        /\ \A h \in handled : h.run = 2 => h.copy = "none"
        /\ runInfo[1].finalized > 0
        /\ runInfo[2].finalized > 0

\* C7: a file whose destination is absent is copied; a successful copy emits one
\* progress unit and one byte count carrying the source size; a failed copy
\* emits one error, no progress unit and no byte count.
C7_AbsentDestination ==
    \A h \in handled :
        h.kind = "absent" =>
            /\ h.copy # "none"
            /\ h.copy = "ok" =>
                 /\ Count(h.sigs, "progress") = 1
                 /\ Count(h.sigs, "memory_count") = 1
                 /\ Count(h.sigs, "error") = 0
                 /\ \A i \in 1..Len(h.sigs) : h.sigs[i].k = "memory_count" => h.sigs[i].v = h.size
            /\ h.copy = "failed" =>
                 /\ Count(h.sigs, "error") = 1
                 /\ Count(h.sigs, "progress") = 0
                 /\ Count(h.sigs, "memory_count") = 0

\* a failed copy of a new file and a successful one, in one run
C7_Witness ==
    /\ \E h \in handled : h.kind = "absent" /\ h.copy = "failed"
    /\ \E h \in handled : h.kind = "absent" /\ h.copy = "ok"

\* C8: a file whose destination is present emits exactly one progress unit; a byte
\* count only when the overwrite succeeded; an error, besides the progress unit,
\* when the overwrite failed.
C8_PresentDestination ==
    \A h \in handled :
        h.kind = "present" =>
            /\ Count(h.sigs, "progress") = 1
            /\ Count(h.sigs, "memory_count") = (IF h.copy = "ok" THEN 1 ELSE 0)
            /\ Count(h.sigs, "error") = (IF h.copy = "failed" THEN 1 ELSE 0)

\* an overwrite that failed
C8_Witness ==
    \E h \in handled : h.kind = "present" /\ h.copy = "failed"

\* C9: a file whose name ends with an excluded suffix is not copied and gives
\* exactly one progress unit in its run, as a child and as a root file.
C9_ExcludedExtension ==
    \A h \in handled :
        (h.src \in SourceFiles
         /\ \E i \in 1..Len(workers[h.w].ignore_extensions) :
               endswith(BaseName(h.src), workers[h.w].ignore_extensions[i])) =>
            /\ h.copy = "none"
            /\ ~isfile(h.dst)
            /\ Count(h.sigs, "progress") = 1
            /\ Count(h.sigs, "memory_count") = 0
            /\ \A g \in handled : (g.src = h.src /\ g.run = h.run) => g = h

\* a root file and a file child, each matching two suffixes, skipped in one run
C9_Witness ==
    /\ \E h \in handled :
          /\ h.kind = "extension" /\ h.rootfile
          /\ Cardinality({i \in 1..Len(workers[h.w].ignore_extensions) :
                 endswith(BaseName(h.src), workers[h.w].ignore_extensions[i])}) = 2
    /\ \E h \in handled : h.kind = "extension" /\ ~h.rootfile

\* what the run does for an excluded child: one progress unit, and for a directory
\* no worker, no decided entry and no destination file below it
ExcludedPruned(h) ==
    /\ Count(h.sigs, "progress") = 1
    /\ isdir(h.src) =>
         /\ \A w \in Ids : workers[w].run = h.run => ~IsPrefix(h.src, workers[w].src)
         /\ \A g \in handled : g.run = h.run /\ IsPrefix(h.src, g.src) => g = h
         /\ \A p \in DOMAIN files : ~IsPrefix(h.dst, p)

\* C10: an excluded child gives exactly one progress unit; for a directory no
\* worker is spawned, no descendant is copied and no descendant is counted in
\* total_expected.
C10_ExcludedPath ==
    \A h \in handled :
        h.kind = "excluded" =>
            /\ ExcludedPruned(h)
            /\ isdir(h.src) =>
                 runInfo[h.run].total <= Cardinality(Selected \ FilesUnder(h.src))

\* the part of C10 about the run alone
C10_RunPart == \A h \in handled : h.kind = "excluded" => ExcludedPruned(h)

\* the workers that run_backup number r created, with their descendants
WorkersOf(r) == {w \in Ids : workers[w].run = r}

\* C11: no backup log record is built in a run in which kill_all has run or one
\* of whose workers has emitted an error.
C11_NoLogForFailedRun ==
    \A i \in 1..Len(backupLogs) :
        LET r == backupLogs[i].run
        IN /\ ~runInfo[r].cancelled
           /\ \A w \in WorkersOf(r) : Count(emitted[w], "error") = 0

\* C12: in the first run of a session, whenever processed equals total_expected
\* the run has been finalized (also when the selection holds no file).
C12_FinalizedWhenEqual ==
    (runs = 1 /\ progress = maximum) => runInfo[1].finalized > 0

\* C13: every run starts with processed = 0 and bytes_copied = 0.
C13_RunStartsAtZero ==
    \A r \in 1..Len(runInfo) : runInfo[r].start = 0 /\ runInfo[r].memory = 0

\* C14: under fair scheduling, for a pool of one thread as for a larger one,
\* every worker that exists once a run has started is eventually started and
\* ends (it has then emitted finished): no worker waits for another.
C14_EveryWorkerFinishes ==
    (runs >= 1) ~> (\A w \in Ids : Ended(w))

\* on a pool of one thread, an error-free run in which a child worker, spawned
\* by its running parent, has handled its own entries and ended
C14_Witness ==
    /\ threads = 1 /\ fails = 0 /\ runs >= 1 /\ Quiescent
    /\ \E w \in Ids : ~workers[w].root /\ Count(emitted[w], "progress") > 0

\* the sum of the values of the signals of kind k in a sequence of signals
RECURSIVE Total(_, _)
Total(sigs, k) ==
    IF sigs = <<>> THEN 0
    ELSE (IF Head(sigs).k = k THEN Head(sigs).v ELSE 0) + Total(Tail(sigs), k)

\* the sum of the values of kind k that workers 1..n have emitted
RECURSIVE EmittedBy(_, _)
EmittedBy(n, k) == IF n = 0 THEN 0 ELSE Total(emitted[n], k) + EmittedBy(n - 1, k)

\* the sum of the values of kind k delivered to the main thread so far:
\* what the workers have emitted and is no longer queued
DeliveredTotal(k) == EmittedBy(Len(emitted), k) - Total(mainQueue, k)

\* C15: at every moment processed is the sum of the progress events delivered so
\* far and bytes_copied the sum of the byte counts delivered so far, and no step
\* decreases either counter.
C15_NoUpdateLost ==
    /\ [](progress = DeliveredTotal("progress")
          /\ total_memory = DeliveredTotal("memory_count"))
    /\ [][progress' >= progress /\ total_memory' >= total_memory]_vars

\* two workers hold pool threads, events of both are queued behind one another,
\* and events of both kinds have been delivered
C15_Witness ==
    /\ Cardinality(Running) >= 2
    /\ \E i, j \in 1..Len(mainQueue) :
          /\ mainQueue[i].w # mainQueue[j].w
          /\ mainQueue[i].k = "progress" /\ mainQueue[j].k = "memory_count"
    /\ progress > 0 /\ total_memory > 0

\* C16: a root directory worker whose nested destination directory cannot be
\* created emits one error and then finished and nothing else (so no progress
\* unit and no new_thread), has no child entry listed or decided, and no worker
\* exists for anything below its source.
C16_RootMappingFailure ==
    \A h \in handled :
        h.kind = "root_makedirs" =>
            /\ Ended(h.w)
            /\ emitted[h.w] = <<Error, Finished>>
            /\ workers[h.w].names = {}
            /\ \A g \in handled : g.w = h.w => g = h
            /\ \A w \in Ids \ {h.w} :
                  workers[w].run = h.run => ~IsPrefix(workers[h.w].src, workers[w].src)

\* the nested directory of a selected directory with a file and subdirectories
\* could not be created, and the error has been handled
C16_Witness ==
    \E h \in handled :
        /\ h.kind = "root_makedirs" /\ listdir(h.src) # {}
        /\ runInfo[h.run].messages = 1

\* the number of error signals that workers 1..n have emitted
RECURSIVE ErrorsEmitted(_)
ErrorsEmitted(n) == IF n = 0 THEN 0 ELSE Count(emitted[n], "error") + ErrorsEmitted(n - 1)

\* the entries at which a filesystem operation failed
Failure(h) == h.copy = "failed" \/ h.kind \in {"makedirs", "root_makedirs", "listdir", "unexpected"}

\* C17: every failed filesystem operation (directory creation, listing, size or
\* time lookup, copy) has given exactly one error signal; a failure that is not
\* caught in place ends run() at once with that error and then finished, and
\* every run() that has ended after a failure emitted finished last.
C17_FailuresBecomeErrors ==
    /\ ErrorsEmitted(Len(emitted)) = fails
    /\ \A h \in handled :
          Failure(h) =>
              /\ Count(h.sigs, "error") = 1
              /\ h.copy # "failed" =>
                    /\ Ended(h.w)
                    /\ Len(emitted[h.w]) >= 2
                    /\ SubSeq(emitted[h.w], Len(emitted[h.w]) - 1, Len(emitted[h.w]))
                          = <<Error, Finished>>
              /\ Ended(h.w) => Last(emitted[h.w]) = Finished

\* a size lookup failed in a directory worker with entries left, and a
\* directory creation or listing failed in another
C17_Witness ==
    /\ \E h \in handled : h.kind = "unexpected" /\ ~h.rootfile /\ workers[h.w].names # {}
    /\ \E h \in handled : h.kind \in {"makedirs", "listdir"}

\* C18 as stated: a directory worker in which a copy failed, and no other
\* operation did, has decided every one of its entries when it ends.
C18_SiblingsProcessed ==
    \A h \in handled :
        (h.copy = "failed" /\ ~h.rootfile /\ Ended(h.w)
         /\ \A g \in handled : g.w = h.w => g.kind # "unexpected") =>
            workers[h.w].names = {}

\* C18, amended: a failed copy does not by itself end the worker.  A directory
\* worker ends with entries left only when it found its kill flag set at a
\* per-child check (it then emits the 'worker killed' status and finished) or
\* when an exception not caught in place ended its loop.
C18_CopyErrorDoesNotStop ==
    \A w \in Ids :
        (Ended(w) /\ workers[w].names # {}) =>
            \/ /\ workers[w].is_killed
               /\ Len(emitted[w]) >= 2
               /\ SubSeq(emitted[w], Len(emitted[w]) - 1, Len(emitted[w])) = <<WorkerKilled, Finished>>
            \/ \E h \in handled : h.w = w /\ h.kind = "unexpected"

\* a worker that copied a sibling after a copy of its own had failed
C18_Witness ==
    \E w \in Ids : \E i, j \in 1..Len(emitted[w]) :
        i < j /\ emitted[w][i].k = "error" /\ emitted[w][j].k = "memory_count"

\* C19: the errors of the workers of one run put at most one failure message
\* before the user.
C19_OneFailureMessage ==
    \A r \in 1..Len(runInfo) : runInfo[r].messages <= 1

\* the sum of the source sizes of a set of decided entries
RECURSIVE SizeSum(_)
SizeSum(S) ==
    IF S = {} THEN 0
    ELSE LET h == CHOOSE x \in S : TRUE IN h.size + SizeSum(S \ {h})

\* the entries that run r copied or overwrote
CopiedIn(r) == {h \in handled : h.run = r /\ h.copy = "ok"}

\* C20: when an error-free run is over, bytes_copied is the sum of the source
\* sizes of the files copied or overwritten in that run.
C20_BytesOfTheRun ==
    (RunOver /\ fails = 0) => total_memory = SizeSum(CopiedIn(runs))

\* the same for the first run of a session alone
C20_FirstRun ==
    (runs = 1 /\ RunOver /\ fails = 0) => total_memory = SizeSum(CopiedIn(1))

\* the entries that are files a worker has taken a copy decision for
Decided == {h \in handled : h.kind \in {"present", "absent"}}

\* C21: two different source files handled in one run, below the same root
\* selection entry or below different ones, never have the same destination path.
C21_DestinationsDisjoint ==
    \A h \in Decided : \A g \in Decided :
        (fails = 0 /\ h.run = g.run /\ h.src # g.src) => h.dst # g.dst

\* C22: a worker that found its kill flag set has emitted the 'worker killed'
\* status and then finished as its last two signals, and has emitted no error
\* other than those of its own failed operations.
C22_KilledWorkerSignals ==
    \A h \in handled :
        h.kind = "killed" =>
            /\ h.killed
            /\ h.sigs = <<WorkerKilled>>
            /\ Ended(h.w)
            /\ Len(emitted[h.w]) >= 2
            /\ SubSeq(emitted[h.w], Len(emitted[h.w]) - 1, Len(emitted[h.w]))
                  = <<WorkerKilled, Finished>>
            /\ Count(emitted[h.w], "error")
                  = Cardinality({g \in handled : g.w = h.w /\ Failure(g)})

\* a directory worker without a failure of its own, stopped with entries left
C22_Witness ==
    \E h \in handled :
        /\ h.kind = "killed"
        /\ workers[h.w].names # {}
        /\ \A g \in handled : g.w = h.w => ~Failure(g)

\* the main thread takes the oldest queued signal and it is an error
ErrorDelivered ==
    /\ mainQueue # <<>>
    /\ Head(mainQueue).k = "error"
    /\ Len(mainQueue') = Len(mainQueue) - 1

\* C23: the step that handles a delivered error sets the kill flag of every
\* worker tracked at that moment and then shows the failure message; the flags
\* are set when the critical box opens.
C23_ErrorCancels ==
    [][ErrorDelivered =>
          /\ \A i \in 1..Len(tracked) : workers'[tracked[i]].is_killed
          /\ boxes' = Append(boxes, "critical")]_vars

\* the critical box is open, two or more workers are tracked and all of them
\* have their flag set, one of them in the middle of its loop
C23_Witness ==
    /\ boxes # <<>> /\ Last(boxes) = "critical"
    /\ Len(tracked) >= 2
    /\ \A i \in 1..Len(tracked) : workers[tracked[i]].is_killed
    /\ \E i \in 1..Len(tracked) : workers[tracked[i]].pc = "loop"

\* C24: a root worker whose source is neither an existing file nor an existing
\* directory, or is a directory that could not be listed, has emitted an error
\* by the time it ends.
C24_UnreadableRootError ==
    \A h \in handled :
        (h.kind \in {"missing", "listdir"} /\ workers[h.w].root /\ Ended(h.w)) =>
            Count(emitted[h.w], "error") >= 1

\* the part of C24 about a directory that cannot be listed
C24_ListingPart ==
    \A h \in handled :
        (h.kind = "listdir" /\ workers[h.w].root /\ Ended(h.w)) =>
            Count(emitted[h.w], "error") = 1

\* C25: as long as a worker of run r is queued or running (created and not yet
\* ended), the progress bar maximum is the total that run_backup set for run r
\* before it created the run's first worker.
C25_TotalFixedDuringRun ==
    \A r \in 1..Len(runInfo) :
        (\E w \in WorkersOf(r) : ~Ended(w)) => maximum = runInfo[r].total

\* the part of C25 about the latest run
C25_LatestRun ==
    runs >= 1 => maximum = runInfo[runs].total

\* C26: every destination file copied in the latest run is still there with the
\* source path, modification time and size that were copied, whatever
\* cancel requests and error events the run has seen since.
C26_CopiesKept ==
    \A h \in handled :
        (h.copy = "ok" /\ h.run = runs) =>
            /\ isfile(h.dst)
            /\ files[h.dst].data[1] = h.src
            /\ files[h.dst].mtime = h.srcM
            /\ files[h.dst].size = h.size

\* a file was copied before the run was cancelled; since then process_error has
\* run and a worker of the run has stopped at its kill flag
C26_Witness ==
    /\ runs >= 1 /\ runInfo[runs].cancelled
    /\ \E h \in handled : h.copy = "ok" /\ h.run = runs /\ ~h.cancelled
    /\ \E h \in handled : h.kind = "killed" /\ h.run = runs

\* update_progress builds a backup log record in this step
Finalizes == Len(backupLogs') = Len(backupLogs) + 1

\* C27: the total_memory of a backup log record built in the first, failure-free
\* run of a session is the sum of the sizes of the files the run has copied or
\* overwritten when the record is built, the file whose progress unit made
\* processed reach the total included.
C27_LoggedBytes ==
    [][(Finalizes /\ runs = 1 /\ fails = 0) =>
          Last(backupLogs').total_memory = SizeSum(CopiedIn(1))]_vars

\* the selected files outside every excluded path that no worker of the first
\* run has reached yet
Waiting ==
    {f \in Selected :
        /\ \A i \in 1..Len(inputs.exclude) : ~IsPrefix(inputs.exclude[i], f)
        /\ \A h \in handled : h.run = 1 => h.src # f}

\* C28: when update_progress finalizes the first run of a session, and no
\* operation has failed and nothing was cancelled, every worker of the run has
\* ended and no selected file is still waiting.
C28_NothingLeftAtFinalization ==
    [][(Finalizes /\ runs = 1 /\ fails = 0 /\ ~runInfo[1].cancelled) =>
          /\ \A w \in WorkersOf(1) : Ended(w)
          /\ Waiting = {}]_vars

\* the part of C28 about the files alone
C28_NoFileWaiting ==
    [][(Finalizes /\ runs = 1 /\ fails = 0 /\ ~runInfo[1].cancelled) =>
          Waiting = {}]_vars

\* C29: in the first run of a session processed never exceeds total_expected.
C29_ProcessedWithinTotal ==
    runs = 1 => progress <= maximum

\* the kinds of entry the for loop of a directory worker decides
LoopKinds == {"excluded", "dir", "unexpected", "present", "absent", "extension", "other"}

\* C30: a directory worker decides no child entry with its kill flag set: it
\* spawns no child worker and takes no copy decision after the flag was set
\* (the flag is never cleared, so every entry it has decided came before).
C30_NothingAfterKill ==
    \A h \in handled :
        (~h.rootfile /\ h.kind \in LoopKinds) =>
            /\ ~h.killed
            /\ workers[h.w].is_killed /\ Ended(h.w) /\ workers[h.w].names # {}
               /\ (\A g \in handled : g.w = h.w => g.kind # "unexpected") =>
                   \E g \in handled : g.w = h.w /\ g.kind = "killed"

\* a directory worker decided one of its entries, then found its flag set with a
\* directory among the entries left, for which no worker was created; another
\* stopped after a copy with a file left
C30_Witness ==
    /\ \E h \in handled :
          /\ h.kind = "killed"
          /\ \E g \in handled : g.w = h.w /\ g.kind \in LoopKinds
          /\ \E n \in workers[h.w].names :
                /\ isdir(Join(workers[h.w].src, n))
                /\ \A w \in Ids : workers[w].src # Join(workers[h.w].src, n)
    /\ \E h \in handled :
          /\ h.kind = "killed"
          /\ \E g \in handled : g.w = h.w /\ g.copy = "ok"
          /\ \E n \in workers[h.w].names : isfile(Join(workers[h.w].src, n))

\* the source directories at or below root that are reached without passing
\* through an excluded path
Reachable(root) ==
    {d \in dirs :
        /\ IsPrefix(root, d)
        /\ \A q \in Prefixes(d) : Len(q) > Len(root) => ~InSeq(q, inputs.exclude)}

\* the workers of the first run whose source is directory d
WorkersFor(d) == {v \in WorkersOf(1) : workers[v].src = d}

\* C31: when the first run is over without a failure or a cancellation, every
\* directory reachable from a root directory has exactly one worker; below the
\* root it is a non-root worker with the root's exclusion lists; the entries a
\* worker decided are the immediate children of its directory, all of them; and
\* a directory at or below an excluded path has no worker.
C31_OneWorkerPerDirectory ==
    (runs = 1 /\ RunOver /\ fails = 0 /\ ~runInfo[1].cancelled) =>
        \A w \in Ids :
            (workers[w].root /\ isdir(workers[w].src)) =>
                /\ \A d \in Reachable(workers[w].src) :
                      /\ Cardinality(WorkersFor(d)) = 1
                      /\ \A v \in WorkersFor(d) :
                            /\ v # w => ~workers[v].root
                            /\ workers[v].ignore_files = workers[w].ignore_files
                            /\ workers[v].ignore_files = inputs.exclude
                            /\ workers[v].ignore_extensions = workers[w].ignore_extensions
                            /\ \A h \in handled :
                                  (h.w = v /\ h.kind \in LoopKinds) =>
                                      /\ Len(h.src) = Len(d) + 1
                                      /\ IsPrefix(d, h.src)
                            /\ \A n \in listdir(d) :
                                  \E h \in handled : h.w = v /\ h.src = Join(d, n)
                /\ \A d \in dirs :
                      (IsPrefix(workers[w].src, d) /\ d \notin Reachable(workers[w].src)) =>
                          WorkersFor(d) = {}

\* a run over a root directory with a subdirectory that got its own worker and
\* an excluded subdirectory that got none
C31_Witness ==
    /\ runs = 1 /\ RunOver /\ fails = 0 /\ ~runInfo[1].cancelled
    /\ \E w \in Ids : \E v \in Ids :
          /\ workers[w].root /\ ~workers[v].root
          /\ \E h \in handled : h.w = v /\ h.copy = "ok"
          /\ \E h \in handled : h.w = w /\ h.kind = "excluded" /\ isdir(h.src)

\* the entries that are files past the path exclusion check
FileKinds == {"extension", "unexpected", "present", "absent"}

\* the case an entry fell in: extension match, failed lookup, destination present
\* or absent; whether the source was newer; how the copy went
CaseOf(h) == <<h.kind, h.srcM > h.dstM, h.copy>>

\* the numbers of progress, byte-count and error events of an entry, and its bytes
EventsOf(h) ==
    <<Count(h.sigs, "progress"), Count(h.sigs, "memory_count"), Count(h.sigs, "error"),
      Total(h.sigs, "memory_count")>>

\* C32: a root file and a file child of a directory are decided alike.  Either is
\* skipped exactly when its name ends with a suffix of the worker's list, and
\* otherwise copy2 is called exactly when the destination is absent or older; a
\* root file and a child that fell in the same case have emitted
\* the same numbers of progress, byte-count and error events; and the root
\* file's destination is the backup directory joined with its base name.
C32_RootFileLikeChild ==
    /\ \A h \in handled :
          h.kind \in FileKinds =>
              /\ (h.kind = "extension")
                    <=> extension_ignored(BaseName(h.src), workers[h.w].ignore_extensions)
              /\ (h.copy # "none")
                    <=> (h.kind = "absent" \/ (h.kind = "present" /\ h.srcM > h.dstM))
              /\ h.rootfile => h.dst = Join(pB, BaseName(h.src))
              /\ Count(h.sigs, "memory_count") = (IF h.copy = "ok" THEN 1 ELSE 0)
              /\ Total(h.sigs, "memory_count") = (IF h.copy = "ok" THEN h.size ELSE 0)
    /\ \A h \in handled : \A g \in handled :
          (h.rootfile /\ ~g.rootfile /\ h.kind \in FileKinds /\ CaseOf(h) = CaseOf(g)) =>
              /\ EventsOf(h)[1] = EventsOf(g)[1]
              /\ EventsOf(h)[2] = EventsOf(g)[2]
              /\ EventsOf(h)[3] = EventsOf(g)[3]

\* a root file and a file child were both overwritten with a newer source
C32_Witness ==
    \E h \in handled : \E g \in handled :
        /\ h.rootfile /\ ~g.rootfile
        /\ h.kind = "present" /\ g.kind = "present"
        /\ h.copy = "ok" /\ g.copy = "ok"

\* a root file and a file child were both skipped for their extension
C32_ExtensionPair ==
    \E h \in handled : \E g \in handled :
        h.rootfile /\ ~g.rootfile /\ h.kind = "extension" /\ g.kind = "extension"

\* C33: for a text the validator's expression matches, the suffix list the
\* workers are given holds no empty string, and a file skipped for its
\* extension has a name that ends with a non-empty suffix of the list.
C33_NoEmptySuffix ==
    reg_expression(inputs.text) =>
        /\ \A w \in Ids : ~InSeq(<<>>, workers[w].ignore_extensions)
        /\ \A h \in handled :
              h.kind = "extension" =>
                  \E i \in 1..Len(workers[h.w].ignore_extensions) :
                      /\ workers[h.w].ignore_extensions[i] # <<>>
                      /\ endswith(BaseName(h.src), workers[h.w].ignore_extensions[i])

\* the part of C33 about the files skipped
C33_SkippedForSuffix ==
    reg_expression(inputs.text) =>
        \A h \in handled :
            h.kind = "extension" =>
                \E i \in 1..Len(workers[h.w].ignore_extensions) :
                    /\ workers[h.w].ignore_extensions[i] # <<>>
                    /\ endswith(BaseName(h.src), workers[h.w].ignore_extensions[i])

\* C34: an entry whose path is in the worker's path exclusion list is decided as
\* excluded and not copied, whether it is a child or the worker's own root
\* source, and no worker whose source is in its exclusion list has begun run()
\* (in behaviours without a failed operation).
C34_ExcludedNeverTouched ==
    fails = 0 =>
        /\ \A h \in handled :
              InSeq(h.src, workers[h.w].ignore_files) =>
                  h.kind = "excluded" /\ h.copy = "none"
        /\ \A w \in Ids :
              InSeq(workers[w].src, workers[w].ignore_files) =>
                  workers[w].pc \in {"created", "queued"}

\* the part of C34 about the children of a directory
C34_ChildPart ==
    \A h \in handled :
        (~h.rootfile /\ InSeq(h.src, workers[h.w].ignore_files)) =>
            /\ h.kind = "excluded" /\ h.copy = "none"
            /\ \A w \in Ids : ~IsPrefix(h.src, workers[w].src)

\* the sum of the values of kind k that the workers of run r among 1..n have emitted
RECURSIVE EmittedByRun(_, _, _)
EmittedByRun(n, k, r) ==
    IF n = 0 THEN 0
    ELSE (IF workers[n].run = r THEN Total(emitted[n], k) ELSE 0) + EmittedByRun(n - 1, k, r)

\* the signals of the workers of run r that are still queued for the main thread
QueuedOfRun(r) == SelectSeq(mainQueue, LAMBDA e : workers[e.w].run = r)

\* the sum of the values of kind k of run r's workers delivered so far
DeliveredOfRun(k, r) == EmittedByRun(Len(emitted), k, r) - Total(QueuedOfRun(r), k)

\* a run was cancelled and a later run has been started, at a moment when no
\* signal was waiting for the main thread
RunAfterCancel ==
    /\ runs >= 2
    /\ \E q \in 1..(runs - 1) : runInfo[q].cancelled
    /\ runInfo[runs].queued = 0

\* C35: in a run started after a cancelled one, what the run has added to
\* processed and to bytes_copied since it started is the sum of the progress and
\* byte-count events delivered from the workers of that run alone: no event of a
\* worker of the cancelled run counts toward it.
C35_AddedByOwnEvents ==
    RunAfterCancel =>
        /\ progress - runInfo[runs].start = DeliveredOfRun("progress", runs)
        /\ total_memory - runInfo[runs].memory = DeliveredOfRun("memory_count", runs)

\* the same for the counters themselves, which also hold what earlier runs added
\* before this one started
C35_OnlyOwnEvents ==
    RunAfterCancel =>
        /\ progress = DeliveredOfRun("progress", runs)
        /\ total_memory = DeliveredOfRun("memory_count", runs)

\* the backup log records built while run r was the latest run
LogsOf(r) == {i \in 1..Len(backupLogs) : backupLogs[i].run = r}

\* C36: update_progress finalizes at most once while a run is the latest one:
\* at most one backup log record and one 'Backup Complete!' box per run, in every
\* order of delivery and also when processed goes on above the total.
C36_FinalizedAtMostOnce ==
    /\ \A r \in 1..Len(runInfo) :
          /\ runInfo[r].finalized <= 1
          /\ Cardinality(LogsOf(r)) = runInfo[r].finalized
    /\ Cardinality({i \in 1..Len(boxes) : boxes[i] = "complete"}) <= 1

\* a run was finalized and processed has gone on above the total since
C36_Witness ==
    /\ runs >= 1
    /\ runInfo[runs].finalized = 1
    /\ progress > maximum
    /\ maximum > 0


====
